---- MODULE Spec2Model ----
(***************************************************************************)
(* Model of the two scripts of the repository:                             *)
(*   examples/prompt_template_example.py  (prompt templating demo)         *)
(*   docs.py                              (document QA pipeline)           *)
(* One process runs one script.  The orchestration library and the remote  *)
(* services are collaborators: each call into them is one step whose       *)
(* outcome (a value, or a raised error) is chosen by the environment.      *)
(***************************************************************************)
EXTENDS Naturals, Sequences, FiniteSets, TLC

VARIABLES
    script,            \* which program this process runs: "demo", "qa", "render"
    env_key,           \* OPENAI_API_KEY in the process environment ("None" = unset)
    pkg_ok,            \* whether the openai client package can be loaded
    pc,                \* position in the script
    objs,              \* names of the objects constructed so far
    result,            \* demo: the reassigned 'result' local
    formatted_prompt,  \* demo: the 'formatted_prompt' local
    calls,             \* requests issued to the remote services, in order
    out,               \* lines printed to standard output, in order
    exc,               \* the exception in flight (type "none" when there is none)
    failedAt,          \* the step that raised it
    exitStatus,        \* process exit status once pc = "exit"
    file_state,        \* qa: "ok", "missing", "undecodable"
    file_text,         \* qa: decoded content of the input file
    top_k,             \* qa: the retriever's default k (owned by the library)
    docs,              \* qa: the loaded documents
    vectorstore,       \* qa: the index entries
    context,           \* qa: the fragments handed to the answerer
    stages,            \* qa: the stages completed, in order
    answer,            \* qa: the 'answer' local
    T,                 \* render: template under test
    explicit,          \* render: call-time bindings
    partial,           \* render: partial (default) bindings
    rendered           \* render: outcome of the render

vars == << script, env_key, pkg_ok, pc, objs, result, formatted_prompt, calls, out,
           exc, failedAt, exitStatus, file_state, file_text, top_k, docs,
           vectorstore, context, stages, answer, T, explicit, partial, rendered >>

demoVars == << result, formatted_prompt >>
qaVars == << docs, vectorstore, context, stages, answer >>
envVars == << script, env_key, pkg_ok, file_state, file_text, top_k >>
renderVars == << T, explicit, partial, rendered >>

----------------------------------------------------------------------------
(* Bounds of the model *)

MaxLen == 2        \* longest template (in tokens) rendered on its own
MaxK == 3          \* largest default top-k tried for the retriever

----------------------------------------------------------------------------
(* Strings, mappings and errors *)

EmptyMap == [n \in {} |-> ""]

NoExc == [type |-> "none", msg |-> ""]

Exc(t, m) == [type |-> t, msg |-> m]

RECURSIVE Concat(_)
Concat(ss) == IF ss = << >> THEN "" ELSE Head(ss) \o Concat(Tail(ss))

\* What the remote generative service may return to one request.
Generations == {"text A", "text B"}

\* What the remote embedding service may return for one text.
Vectors == {"v1", "v2"}

\* os.getenv("OPENAI_API_KEY"): None when unset, else the string.
KeyValues == {"None", "", "sk-test"}

HasCredential == env_key \notin {"None", ""}

----------------------------------------------------------------------------
(* TemplateRenderer: a template is its text split at the placeholders.     *)

Lit(s) == [kind |-> "lit", s |-> s]
Var(n) == [kind |-> "var", s |-> n]

Placeholders(t) == {t[i].s : i \in {j \in 1..Len(t) : t[j].kind = "var"}}

PromptTemplate(iv, t, pv) ==
    [input_variables |-> iv, template |-> t, partial_variables |-> pv]

\* Partial values first, explicit values over them.
Merge(pv, kwargs) ==
    [n \in (DOMAIN pv) \cup (DOMAIN kwargs) |->
        IF n \in DOMAIN kwargs THEN kwargs[n] ELSE pv[n]]

\* One pass over the template text, left to right; the first placeholder
\* without a value ends the render with a MissingVariable error.
RECURSIVE Render(_, _)
Render(t, values) ==
    IF t = << >> THEN [ok |-> TRUE, text |-> ""]
    ELSE LET h == Head(t)
             rest == Render(Tail(t), values)
         IN  IF h.kind = "var" /\ h.s \notin DOMAIN values
             THEN [ok |-> FALSE, text |-> h.s]
             ELSE IF ~rest.ok THEN rest
             ELSE [ok |-> TRUE,
                   text |-> (IF h.kind = "lit" THEN h.s ELSE values[h.s]) \o rest.text]

Format(prompt, kwargs) ==
    Render(prompt.template, Merge(prompt.partial_variables, kwargs))

MissingVariable(r) == Exc("KeyError", r.text)

----------------------------------------------------------------------------
(* The templating demo: its templates and its literal bindings.            *)

simple_template ==
    << Lit("You are a helpful assistant. \n    \nQuestion: What is "), Var("topic"),
       Lit("?\n\nAnswer: Let me explain "), Var("topic"), Lit(" in simple terms.") >>

simple_prompt == PromptTemplate(<<"topic">>, simple_template, EmptyMap)

topic == "photosynthesis"

simple_inputs_misnamed == [subject |-> topic]

simple_inputs == [topic |-> topic]

multi_template ==
    << Lit("You are a marketing copywriter.\n\nWrite a "), Var("tone"),
       Lit(" product description for "), Var("product"), Lit(" targeting "),
       Var("audience"), Lit(".\n\nProduct Description:") >>

multi_prompt == PromptTemplate(<<"product", "audience", "tone">>, multi_template, EmptyMap)

multi_inputs_carry ==
    [product |-> result,
     audience |-> "environmentally conscious millennials",
     tone |-> "enthusiastic and inspiring"]

multi_inputs ==
    [product |-> "eco-friendly water bottle",
     audience |-> "environmentally conscious millennials",
     tone |-> "enthusiastic and inspiring"]

code_template ==
    PromptTemplate(<<"language", "code">>,
        << Lit("Explain the following "), Var("language"), Lit(" code:\n\n"),
           Var("code"), Lit("\n\nExplanation:") >>,
        EmptyMap)

code_format_inputs ==
    [language |-> "Python", code |-> "result = [x**2 for x in range(10)]"]

code_chain_inputs_other ==
    [language |-> "python", code |-> "result = [x**2 for x in range(10)]"]

code_chain_inputs ==
    [language |-> "Python", code |-> "result = [x**2 for x in range(10)]"]

partial_template_no_partial ==
    PromptTemplate(<<"question">>,
        << Lit("You are an expert in "), Var("domain"),
           Lit(". Answer this question: "), Var("question") >>,
        EmptyMap)

partial_template ==
    PromptTemplate(<<"question">>,
        << Lit("You are an expert in "), Var("domain"),
           Lit(". Answer this question: "), Var("question") >>,
        [domain |-> "artificial intelligence"])

partial_inputs == [question |-> "What is machine learning?"]

Rule(c) == Concat([i \in 1..60 |-> c])

----------------------------------------------------------------------------
(* Collaborator calls: what the environment may answer.                    *)

\* Constructing a client of the remote service (OpenAI, OpenAIEmbeddings).
\* The library owns the constructor: it fails when its client package cannot
\* be loaded, and without a credential it may either fail at once or defer
\* the failure to the first request.
CtorOutcomes ==
    IF ~pkg_ok THEN {Exc("ImportError", "Could not import openai python package")}
    ELSE IF HasCredential THEN {NoExc}
    ELSE {NoExc, Exc("ValueError", "Did not find openai_api_key")}

\* One blocking request to the remote service: an error (auth, rate limit,
\* network), or, with a credential only, a reply.
RemoteOutcomes(replies) ==
    {[ok |-> FALSE, text |-> "remote service error"]}
    \cup (IF HasCredential THEN {[ok |-> TRUE, text |-> g] : g \in replies} ELSE {})

RemoteError == Exc("APIError", "remote service error")

\* A request as issued, with the answer it got (ok = a reply, not an error).
Request(api, input, ok) == [api |-> api, input |-> input, ok |-> ok]

Raise(e, at) ==
    /\ exc' = e
    /\ failedAt' = at
    /\ pc' = "raised"

\* LLMChain.run(**inputs): render the prompt, submit it, return the text.
\* 'printed' are the lines the script prints up to the call, 'echo' the ones
\* it prints between the call's return and the response line.
LLMChainRun(prompt, inputs, at, next, built, printed, echo, closing) ==
    LET p == Format(prompt, inputs) IN
    /\ objs' = objs \cup built
    /\ IF ~p.ok
       THEN /\ Raise(MissingVariable(p), at)
            /\ out' = out \o printed
            /\ UNCHANGED << calls, result >>
       ELSE \E r \in RemoteOutcomes(Generations) :
            /\ calls' = Append(calls, Request("completion", p.text, r.ok))
            /\ IF r.ok
               THEN /\ result' = r.text
                    /\ out' = out \o printed \o echo
                                  \o << "Response: " \o r.text, "" >> \o closing
                    /\ pc' = next
                    /\ UNCHANGED << exc, failedAt >>
               ELSE /\ Raise(RemoteError, at)
                    /\ out' = out \o printed
                    /\ UNCHANGED result

----------------------------------------------------------------------------
(* prompt_template_example.py                                              *)

KeyIsNone(k) == k = "None"

\* 'not api_key': None and the empty string are both falsy.
KeyMissing(k) == k \in {"None", ""}

ConfigError ==
    Exc("ValueError",
        "OPENAI_API_KEY environment variable not set. "
            \o "Please set it before running this example.")

CheckApiKey ==
    /\ script = "demo" /\ pc = "main"
    /\ IF KeyMissing(env_key)
       THEN /\ Raise(ConfigError, "check")
            /\ UNCHANGED out
       ELSE /\ out' = out \o << Rule("="), "LangChain PromptTemplate & LLMChain Example",
                                Rule("="), "" >>
            /\ pc' = "ex1"
            /\ UNCHANGED << exc, failedAt >>
    /\ UNCHANGED << envVars, demoVars, qaVars, renderVars, objs, calls, exitStatus >>

Example1 ==
    /\ script = "demo" /\ pc = "ex1"
    /\ \E c \in CtorOutcomes :
         IF c # NoExc
         THEN /\ Raise(c, "ex1")
              /\ objs' = objs \cup {"simple_prompt"}
              /\ out' = out \o << "Example 1: Simple Question Answering", Rule("-") >>
              /\ UNCHANGED << calls, result >>
         ELSE LLMChainRun(simple_prompt, simple_inputs, "ex1", "ex2",
                  {"simple_prompt", "llm", "simple_chain"},
                  << "Example 1: Simple Question Answering", Rule("-") >>,
                  << "Topic: " \o topic >>, << >>)
    /\ UNCHANGED << envVars, qaVars, renderVars, formatted_prompt, exitStatus >>

Example2Recover ==
    /\ script = "demo" /\ pc = "ex2"
    /\ \E r \in RemoteOutcomes(Generations) :
         /\ calls' = Append(calls,
                Request("completion", Format(multi_prompt, multi_inputs).text, r.ok))
         /\ result' = IF r.ok THEN r.text ELSE ""
         /\ out' = out \o << "Example 2: Multiple Input Variables", Rule("-"),
                              "Response: " \o result', "" >>
    /\ objs' = objs \cup {"multi_prompt", "multi_chain"}
    /\ pc' = "ex3"
    /\ UNCHANGED << envVars, qaVars, renderVars, formatted_prompt, exitStatus,
                    exc, failedAt >>

Example2 ==
    /\ script = "demo" /\ pc = "ex2"
    /\ LLMChainRun(multi_prompt, multi_inputs, "ex2", "ex3",
           {"multi_prompt", "multi_chain"},
           << "Example 2: Multiple Input Variables", Rule("-") >>,
           << "Product: eco-friendly water bottle",
              "Audience: environmentally conscious millennials",
              "Tone: enthusiastic and inspiring" >>, << >>)
    /\ UNCHANGED << envVars, qaVars, renderVars, formatted_prompt, exitStatus >>

Example3 ==
    /\ script = "demo" /\ pc = "ex3"
    /\ LET f == Format(code_template, code_format_inputs)
           header == << "Example 3: Direct Prompt Formatting", Rule("-") >>
       IN  IF ~f.ok
           THEN /\ Raise(MissingVariable(f), "ex3")
                /\ objs' = objs \cup {"code_template"}
                /\ out' = out \o header
                /\ UNCHANGED << calls, result, formatted_prompt >>
           ELSE /\ formatted_prompt' = f.text
                /\ LLMChainRun(code_template, code_chain_inputs, "ex3", "ex4",
                       {"code_template", "code_chain"},
                       header \o << "Formatted Prompt:", f.text, "" >>,
                       << >>, << >>)
    /\ UNCHANGED << envVars, qaVars, renderVars, exitStatus >>

Example4 ==
    /\ script = "demo" /\ pc = "ex4"
    /\ LLMChainRun(partial_template, partial_inputs, "ex4", "returned",
           {"partial_template", "partial_chain"},
           << "Example 4: Partial Variables", Rule("-") >>,
           << "Question: What is machine learning?" >>,
           << Rule("="), "All examples completed successfully!", Rule("=") >>)
    /\ UNCHANGED << envVars, qaVars, renderVars, formatted_prompt, exitStatus >>

\* The classes 'except Exception' catches: every error the script can raise.
ExceptionClasses ==
    {"ValueError", "KeyError", "ImportError", "APIError",
     "FileNotFoundError", "UnicodeDecodeError"}

CaughtValueErrorOnly(e) == e.type = "ValueError"

Caught(e) == e.type \in ExceptionClasses

ExceptBlockReraise ==
    /\ script = "demo" /\ pc = "raised"
    /\ out' = out \o << "Error: " \o exc.msg, "", "Make sure you have:",
                        "1. Installed required packages: pip install langchain openai",
                        "2. Set OPENAI_API_KEY environment variable" >>
    /\ exitStatus' = 1
    /\ pc' = "exit"
    /\ UNCHANGED << envVars, demoVars, qaVars, renderVars, objs, calls, exc, failedAt >>

\* try: main() / except Exception as e: print the error and the hint.
ExceptBlock ==
    /\ script = "demo" /\ pc = "raised"
    /\ IF Caught(exc)
       THEN /\ out' = out \o << "Error: " \o exc.msg, "", "Make sure you have:",
                                "1. Installed required packages: pip install langchain openai",
                                "2. Set OPENAI_API_KEY environment variable" >>
            /\ exitStatus' = 0
       ELSE /\ out' = out
            /\ exitStatus' = 1
    /\ pc' = "exit"
    /\ UNCHANGED << envVars, demoVars, qaVars, renderVars, objs, calls, exc, failedAt >>

\* main() returned: the script falls off its end.
DemoExit ==
    /\ script = "demo" /\ pc = "returned"
    /\ exitStatus' = 0
    /\ pc' = "exit"
    /\ UNCHANGED << envVars, demoVars, qaVars, renderVars, objs, calls, out, exc, failedAt >>

----------------------------------------------------------------------------
(* docs.py                                                                 *)

path == "examples/sample_doc.txt"

question == "Summarize the main point of the document."

\* Contents the input file may have.
FileTexts == {"", "alpha", "alpha beta gamma"}

Document(src, text) == [source |-> src, page_content |-> text]

\* TextLoader(path, encoding="utf8").load(): the whole file as one document.
Loader(state, text) ==
    IF state = "missing"
    THEN [ok |-> FALSE, docs |-> << >>, exc |-> Exc("FileNotFoundError", path)]
    ELSE IF state = "undecodable"
    THEN [ok |-> FALSE, docs |-> << >>, exc |-> Exc("UnicodeDecodeError", path)]
    ELSE [ok |-> TRUE, docs |-> << Document(path, text) >>, exc |-> NoExc]

Texts(ds) == [i \in 1..Len(ds) |-> ds[i].page_content]

\* The k entries most similar to the query, best first.  The metric and the
\* ranking are the library's: any order of any min(k, n) entries.
TopK(store, k) ==
    LET n == IF k < Len(store) THEN k ELSE Len(store)
    IN  {[i \in 1..n |-> store[f[i]].fragment] :
            f \in {g \in [1..n -> 1..Len(store)] :
                     \A i, j \in 1..n : i # j => g[i] # g[j]}}

\* chain_type="stuff": every retrieved fragment and the question in one prompt.
Stuff(ctx, q) == Concat(Texts(ctx)) \o "\n\nQuestion: " \o q

LoadDocsPrecheck ==
    /\ script = "qa" /\ pc = "main"
    /\ IF ~HasCredential
       THEN /\ Raise(ConfigError, "load")
            /\ UNCHANGED << docs, stages >>
       ELSE /\ docs' = Loader(file_state, file_text).docs
            /\ stages' = Append(stages, "load")
            /\ pc' = "embed"
            /\ UNCHANGED << exc, failedAt >>
    /\ objs' = objs \cup {"loader"}
    /\ UNCHANGED << envVars, demoVars, renderVars, vectorstore, context, answer,
                    calls, out, exitStatus >>

LoadDocs ==
    /\ script = "qa" /\ pc = "main"
    /\ LET l == Loader(file_state, file_text)
       IN  IF ~l.ok
           THEN /\ Raise(l.exc, "load")
                /\ UNCHANGED << docs, stages >>
           ELSE /\ docs' = l.docs
                /\ stages' = Append(stages, "load")
                /\ pc' = "embed"
                /\ UNCHANGED << exc, failedAt >>
    /\ objs' = objs \cup {"loader"}
    /\ UNCHANGED << envVars, demoVars, renderVars, vectorstore, context, answer,
                    calls, out, exitStatus >>

MakeEmbeddings ==
    /\ script = "qa" /\ pc = "embed"
    /\ \E c \in CtorOutcomes :
         IF c # NoExc
         THEN /\ Raise(c, "embed")
              /\ UNCHANGED << objs, stages >>
         ELSE /\ objs' = objs \cup {"embeddings"}
              /\ stages' = Append(stages, "embed")
              /\ pc' = "index"
              /\ UNCHANGED << exc, failedAt >>
    /\ UNCHANGED << envVars, demoVars, renderVars, docs, vectorstore, context, answer,
                    calls, out, exitStatus >>

IndexInputChunked ==
    [i \in 1..(2 * Len(docs)) |->
        Document(docs[(i + 1) \div 2].source, docs[(i + 1) \div 2].page_content)]

\* The documents handed to the index are the loaded ones, as loaded.
IndexInput == docs

\* FAISS.from_documents: one embedding request for all texts, then one
\* entry per document.
BuildIndex ==
    /\ script = "qa" /\ pc = "index"
    /\ LET d == IndexInput IN
       \/ /\ calls' = Append(calls, Request("embedding", Texts(d), FALSE))
          /\ Raise(RemoteError, "index")
          /\ UNCHANGED << objs, stages, vectorstore >>
       \/ /\ HasCredential
          /\ calls' = Append(calls, Request("embedding", Texts(d), TRUE))
          /\ \E vs \in [1..Len(d) -> Vectors] :
               vectorstore' = [i \in 1..Len(d) |-> [fragment |-> d[i], vector |-> vs[i]]]
          /\ objs' = objs \cup {"vectorstore"}
          /\ stages' = Append(stages, "index")
          /\ pc' = "retriever"
          /\ UNCHANGED << exc, failedAt >>
    /\ UNCHANGED << envVars, demoVars, renderVars, docs, context, answer, out, exitStatus >>

MakeRetriever ==
    /\ script = "qa" /\ pc = "retriever"
    /\ \E c \in CtorOutcomes :
         IF c # NoExc
         THEN /\ Raise(c, "retriever")
              /\ objs' = objs \cup {"retriever"}
              /\ UNCHANGED stages
         ELSE /\ objs' = objs \cup {"retriever", "llm", "qa"}
              /\ stages' = Append(stages, "retriever")
              /\ pc' = "answer"
              /\ UNCHANGED << exc, failedAt >>
    /\ UNCHANGED << envVars, demoVars, renderVars, docs, vectorstore, context, answer,
                    calls, out, exitStatus >>

\* qa.run(question): embed the question, retrieve, stuff, generate; then print.
Answer ==
    /\ script = "qa" /\ pc = "answer"
    /\ LET q(ok) == Request("embedding", << question >>, ok) IN
       \/ /\ calls' = Append(calls, q(FALSE))
          /\ Raise(RemoteError, "answer")
          /\ UNCHANGED << context, answer, out, stages >>
       \/ /\ HasCredential
          /\ \E ctx \in TopK(vectorstore, top_k) :
               /\ context' = ctx
               /\ \/ /\ calls' = calls \o << q(TRUE),
                                Request("completion", Stuff(ctx, question), FALSE) >>
                     /\ Raise(RemoteError, "answer")
                     /\ UNCHANGED << answer, out, stages >>
                  \/ \E g \in Generations :
                       /\ calls' = calls \o << q(TRUE),
                                Request("completion", Stuff(ctx, question), TRUE) >>
                       /\ answer' = g
                       /\ out' = Append(out, "Answer: " \o g)
                       /\ stages' = Append(stages, "answer")
                       /\ pc' = "returned"
                       /\ UNCHANGED << exc, failedAt >>
    /\ UNCHANGED << envVars, demoVars, renderVars, docs, vectorstore, objs, exitStatus >>

\* No handler around main(): an error leaves through the interpreter.
QAExit ==
    /\ script = "qa" /\ pc \in {"returned", "raised"}
    /\ exitStatus' = IF pc = "raised" THEN 1 ELSE 0
    /\ pc' = "exit"
    /\ UNCHANGED << envVars, demoVars, qaVars, renderVars, objs, calls, out, exc, failedAt >>

----------------------------------------------------------------------------
(* Rendering on its own: any template, any explicit and partial bindings.  *)

Names == {"a", "b"}
Values == {"x", "y"}
Tokens == {Lit("-")} \cup {Var(n) : n \in Names}
Templates == UNION {[1..n -> Tokens] : n \in 0..MaxLen}
Bindings == UNION {[S -> Values] : S \in SUBSET Names}

RenderStep ==
    /\ script = "render" /\ pc = "main"
    /\ rendered' = Render(T, Merge(partial, explicit))
    /\ pc' = "exit"
    /\ exitStatus' = 0
    /\ UNCHANGED << envVars, demoVars, qaVars, T, explicit, partial, objs, calls, out,
                    exc, failedAt >>

----------------------------------------------------------------------------
(* The specification *)

Idle ==
    /\ pc = "main" /\ objs = {} /\ result = "" /\ formatted_prompt = ""
    /\ calls = << >> /\ out = << >> /\ exc = NoExc /\ failedAt = "none"
    /\ exitStatus = 0 /\ docs = << >> /\ vectorstore = << >> /\ context = << >>
    /\ stages = << >> /\ answer = "" /\ rendered = [ok |-> FALSE, text |-> ""]

InitDemo ==
    /\ script = "demo"
    /\ env_key \in KeyValues /\ pkg_ok \in BOOLEAN
    /\ file_state = "ok" /\ file_text = "" /\ top_k = 1
    /\ T = << >> /\ explicit = EmptyMap /\ partial = EmptyMap

InitQA ==
    /\ script = "qa"
    /\ env_key \in KeyValues /\ pkg_ok \in BOOLEAN
    /\ file_state \in {"ok", "missing", "undecodable"}
    /\ file_text \in (IF file_state = "ok" THEN FileTexts ELSE {""})
    /\ top_k \in 1..MaxK
    /\ T = << >> /\ explicit = EmptyMap /\ partial = EmptyMap

InitRender ==
    /\ script = "render"
    /\ env_key = "None" /\ pkg_ok = TRUE
    /\ file_state = "ok" /\ file_text = "" /\ top_k = 1
    /\ T \in Templates /\ explicit \in Bindings /\ partial \in Bindings

Init == Idle /\ (InitDemo \/ InitQA \/ InitRender)

Next ==
    \/ CheckApiKey \/ Example1 \/ Example2 \/ Example3 \/ Example4
    \/ ExceptBlock \/ DemoExit
    \/ LoadDocs \/ MakeEmbeddings \/ BuildIndex \/ MakeRetriever \/ Answer \/ QAExit
    \/ RenderStep

Spec == Init /\ [][Next]_vars

----------------------------------------------------------------------------
(* Helpers of the properties *)

Range(f) == {f[i] : i \in DOMAIN f}

IsPrefix(a, b) == Len(a) <= Len(b) /\ a = SubSeq(b, 1, Len(a))

Last(n, q) == SubSeq(q, Len(q) - n + 1, Len(q))

Hint ==
    << "", "Make sure you have:",
       "1. Installed required packages: pip install langchain openai",
       "2. Set OPENAI_API_KEY environment variable" >>

Completed == "All examples completed successfully!" \in Range(out)

\* Something has failed: an error is in flight, or a request was refused.
Failed == exc # NoExc \/ \E i \in 1..Len(calls) : ~calls[i].ok

Pipeline == << "load", "embed", "index", "retriever", "answer" >>

----------------------------------------------------------------------------
(* C1 *)

\* C1: in the templating demo, with OPENAI_API_KEY unset or empty at the start
\* of main(), the run raises the configuration error at the key check and
\* nothing else happens: no template or client object is constructed and no
\* remote call is issued, in any state of the run.
C1_NoCredentialFailsFirst ==
    (script = "demo" /\ env_key \in {"None", ""}) =>
        /\ calls = << >>
        /\ objs = {}
        /\ pc \in {"main", "raised", "exit"}
        /\ pc # "main" => (exc = ConfigError /\ failedAt = "check")

C1_Witness ==
    /\ script = "demo" /\ env_key = "" /\ pc = "exit"
    /\ exc = ConfigError /\ calls = << >>

----------------------------------------------------------------------------
(* C2 *)

\* C2: in the templating demo every error raised inside main() reaches the
\* top-level handler: once the run has ended after an error, the last lines
\* printed are the error message followed by the hint naming the packages to
\* install and the OPENAI_API_KEY variable; and an error in flight is always
\* of a class the handler catches.
C2_ErrorsCaughtWithHint ==
    (script = "demo" /\ exc # NoExc) =>
        /\ exc.type \in ExceptionClasses
        /\ pc \in {"raised", "exit"}
        /\ pc = "exit" =>
              /\ Len(out) >= 5
              /\ Last(5, out) = << "Error: " \o exc.msg >> \o Hint

C2_Witness ==
    /\ script = "demo" /\ pc = "exit" /\ exc = RemoteError
    /\ Len(calls) = 3
    /\ Last(5, out) = << "Error: remote service error" >> \o Hint

----------------------------------------------------------------------------
(* C3 *)

C3_State ==
    /\ (script = "demo" /\ Completed) =>
          /\ exc = NoExc
          /\ Len(calls) = 4
          /\ \A i \in 1..4 : calls[i].ok
    /\ (script = "demo" /\ Failed) =>
          /\ ~Completed
          /\ exc # NoExc
          /\ \A i \in 1..Len(calls) : ~calls[i].ok => i = Len(calls)
          /\ \A k \in 1..4 :
                failedAt = <<"ex1", "ex2", "ex3", "ex4">>[k] => Len(calls) <= k
    /\ (script = "qa" /\ \E g \in Generations : ("Answer: " \o g) \in Range(out)) =>
          /\ exc = NoExc
          /\ stages = Pipeline
          /\ \A i \in 1..Len(calls) : calls[i].ok
    /\ (script = "qa" /\ Failed) =>
          /\ exc # NoExc
          /\ \A g \in Generations : ("Answer: " \o g) \notin Range(out)

C3_Step ==
    Failed =>
        /\ calls' = calls /\ exc' = exc /\ failedAt' = failedAt
        /\ objs' = objs /\ result' = result /\ formatted_prompt' = formatted_prompt
        /\ stages' = stages /\ vectorstore' = vectorstore /\ answer' = answer
        /\ pc' = "exit"

\* C3: every error is terminal in both scripts.  Once a step has failed no
\* later step runs and no further remote call is issued (the only step left
\* is the one that ends the process); the demo prints "All examples completed
\* successfully!" only after four chain runs that all returned, and the QA
\* pipeline prints the "Answer:" line only after every stage succeeded.
C3_ErrorsTerminal == [](C3_State) /\ [][C3_Step]_vars

C3_Witness ==
    /\ script = "demo" /\ pc = "exit" /\ failedAt = "ex2"
    /\ Len(calls) = 2 /\ calls[1].ok /\ ~calls[2].ok
    /\ ~Completed

----------------------------------------------------------------------------
(* C4 *)

C4_Order == script = "qa" => IsPrefix(stages, Pipeline)

C4_BadFile ==
    (script = "qa" /\ file_state # "ok") =>
        /\ calls = << >>
        /\ stages = << >>
        /\ pc # "main" => (failedAt = "load" /\ exc.type \in {"FileNotFoundError",
                                                              "UnicodeDecodeError"})

\* C4 as stated: without a credential (input file readable, client package
\* installed) the run fails only at the first network call, the embedding
\* request of the index build; stages run in order; a bad input file fails the
\* run before any network call.
C4_AsStated ==
    /\ C4_Order
    /\ C4_BadFile
    /\ (script = "qa" /\ ~HasCredential /\ file_state = "ok" /\ pkg_ok /\ exc # NoExc) =>
          /\ failedAt = "index"
          /\ Len(calls) = 1 /\ calls[1].api = "embedding"

\* C4 (amended): the QA pipeline has no credential pre-check and runs load,
\* embed, build index, make retriever, answer in that order.  A missing
\* credential never fails the run before the document is loaded, and surfaces
\* no later than the first network call: either when the embeddings client is
\* constructed (no request issued yet) or at the embedding request of the index
\* build; nothing is indexed without it.  A missing or undecodable input file
\* fails the run at the load, before any network call, credential or not.
C4_CredentialSurfacesByFirstCall ==
    /\ C4_Order
    /\ C4_BadFile
    /\ (script = "qa" /\ ~HasCredential /\ file_state = "ok") =>
          /\ pc # "main" => (Len(docs) = 1 /\ Len(stages) >= 1 /\ stages[1] = "load")
          /\ failedAt # "load"
          /\ vectorstore = << >>
          /\ \A i \in 1..Len(calls) : ~calls[i].ok
          /\ (pkg_ok /\ exc # NoExc) =>
                \/ failedAt = "embed" /\ calls = << >>
                \/ /\ failedAt = "index"
                   /\ Len(calls) = 1 /\ calls[1].api = "embedding"
          /\ pc \in {"main", "embed", "index", "raised", "exit"}

C4_Witness ==
    /\ script = "qa" /\ env_key = "None" /\ file_state = "ok" /\ pkg_ok
    /\ pc = "exit" /\ failedAt = "embed" /\ exc.type = "ValueError"
    /\ calls = << >> /\ Len(docs) = 1 /\ stages = << "load" >>

----------------------------------------------------------------------------
(* C5 *)

\* The value the merge rule gives placeholder n.
Chosen(n) == IF n \in DOMAIN explicit THEN explicit[n] ELSE partial[n]

\* C5: rendering substitutes, for every placeholder, the explicit value when
\* one is supplied and the partial value otherwise.  Example 4 (partial
\* 'domain', only 'question' supplied) renders without a template error and
\* submits the prompt built with the partial 'domain'; the same template given
\* an explicit 'domain' as well renders with the explicit one.
C5_ExplicitOverridesPartial ==
    /\ (script = "render" /\ pc = "exit" /\ rendered.ok) =>
          rendered.text =
              Concat([i \in 1..Len(T) |->
                        IF T[i].kind = "lit" THEN T[i].s ELSE Chosen(T[i].s)])
    /\ script = "demo" =>
          /\ ~(failedAt = "ex4" /\ exc.type = "KeyError")
          /\ Len(calls) = 4 =>
                calls[4].input = "You are an expert in artificial intelligence. "
                                    \o "Answer this question: What is machine learning?"
    /\ Format(partial_template, [question |-> "What is machine learning?",
                                 domain |-> "biology"])
          = [ok |-> TRUE,
             text |-> "You are an expert in biology. "
                         \o "Answer this question: What is machine learning?"]

C5_Witness ==
    /\ script = "render" /\ pc = "exit" /\ rendered.ok
    /\ \E i \in 1..Len(T) :
          /\ T[i].kind = "var"
          /\ T[i].s \in (DOMAIN explicit) \cap (DOMAIN partial)
          /\ explicit[T[i].s] # partial[T[i].s]
    /\ \E i \in 1..Len(T) :
          T[i].kind = "var" /\ T[i].s \in (DOMAIN partial) \ (DOMAIN explicit)

----------------------------------------------------------------------------
(* C6 *)

\* C6: a render fails, with a MissingVariable error, exactly when some
\* placeholder of the template has neither an explicit nor a partial value,
\* and the error names such a placeholder; otherwise it succeeds.  None of the
\* renders of the templating demo raises a template error.
C6_MissingVariableIff ==
    /\ (script = "render" /\ pc = "exit") =>
          /\ ~rendered.ok <=>
                \E n \in Placeholders(T) : n \notin (DOMAIN explicit) \cup (DOMAIN partial)
          /\ ~rendered.ok =>
                /\ rendered.text \in Placeholders(T)
                /\ rendered.text \notin (DOMAIN explicit) \cup (DOMAIN partial)
    /\ script = "demo" =>
          /\ exc.type # "KeyError"
          /\ pc \in {"ex4", "returned"} => formatted_prompt # ""

C6_Witness ==
    /\ script = "render" /\ pc = "exit" /\ ~rendered.ok
    /\ Cardinality(Placeholders(T)) = 2
    /\ (DOMAIN explicit) \cup (DOMAIN partial) # {}

----------------------------------------------------------------------------
(* C7 *)

----------------------------------------------------------------------------
(* C8 *)

ExpectedPrompts ==
    << "You are a helpful assistant. \n    \nQuestion: What is photosynthesis?"
          \o "\n\nAnswer: Let me explain photosynthesis in simple terms.",
       "You are a marketing copywriter.\n\nWrite a enthusiastic and inspiring "
          \o "product description for eco-friendly water bottle targeting "
          \o "environmentally conscious millennials.\n\nProduct Description:",
       "Explain the following Python code:\n\n"
          \o "result = [x**2 for x in range(10)]\n\nExplanation:",
       "You are an expert in artificial intelligence. "
          \o "Answer this question: What is machine learning?" >>

\* C8: the k-th chain run of the demo submits the prompt fixed by example k's
\* template and literals, whatever the earlier runs returned, and a run that
\* returned is always followed by the next example, whatever it returned.
C8_NoStateBetweenRuns ==
    script = "demo" =>
        /\ Len(calls) <= 4
        /\ \A k \in 1..Len(calls) :
              calls[k].api = "completion" /\ calls[k].input = ExpectedPrompts[k]
        /\ pc = "ex2" => ENABLED Example2
        /\ pc = "ex3" => ENABLED Example3
        /\ pc = "ex4" => ENABLED Example4

C8_Witness ==
    /\ script = "demo" /\ pc = "ex3" /\ result = "text B"
    /\ Len(calls) = 2 /\ calls[2].input = ExpectedPrompts[2]

----------------------------------------------------------------------------
(* C9 *)

\* C9: in the QA pipeline, once the index is built it holds exactly one entry,
\* the whole file as one fragment, sent for embedding once; and the context
\* handed to the answerer is exactly that one fragment, for every default k.
C9_OneFragment ==
    script = "qa" =>
        /\ vectorstore # << >> =>
              /\ Len(vectorstore) = 1
              /\ vectorstore[1].fragment = Document(path, file_text)
              /\ calls[1] = Request("embedding", << file_text >>, TRUE)
        /\ Len(calls) >= 3 =>
              /\ context = << Document(path, file_text) >>
              /\ calls[3].input = Stuff(<< Document(path, file_text) >>, question)
        /\ Len(context) <= 1

C9_Witness ==
    /\ script = "qa" /\ pc = "exit" /\ top_k = 3 /\ file_text = "alpha beta gamma"
    /\ Len(context) = 1 /\ Len(vectorstore) = 1 /\ answer = "text A"

----------------------------------------------------------------------------
(* C10 *)

\* C10: the templating demo always ends with exit status zero, whether main()
\* completed or raised; the QA pipeline ends with a non-zero status exactly
\* when a stage raised, and prints nothing about the error itself.
C10_ExitStatus ==
    pc = "exit" =>
        /\ script = "demo" => exitStatus = 0
        /\ script = "qa" => (exitStatus # 0 <=> exc # NoExc)
        /\ script = "qa" => (exitStatus = 0 <=> stages = Pipeline)
        /\ (script = "qa" /\ exc # NoExc) => out = << >>

C10_Witness ==
    /\ script = "demo" /\ pc = "exit" /\ exc = RemoteError /\ exitStatus = 0

====
